---- MODULE Spec2Model ----
(***************************************************************************)
(* Geometric post-processing of PaddleX results:                           *)
(*   - PaddleXPostProcessingBBoxes (src/src/process_bboxes.py): removal of *)
(*     overlapping layout boxes;                                           *)
(*   - PaddleXPostProcessingTable (src/src/process_table.py): rows,        *)
(*     columns and spans of a table from its detected cell boxes.          *)
(*                                                                         *)
(* Python lists are sequences; list and box indexes are 1-based here, so   *)
(* index k of the model is index k-1 of the source and "not found" (-1 in  *)
(* the source) is 0.  Scores are integers ordered as the floats are.       *)
(***************************************************************************)
EXTENDS Integers, Sequences, FiniteSets, TLC

\* ---------------------------------------------------------------- bounds
MaxBoxes == 3
GridMax == 2
MaxScore == 3
MaxWide == 2
ChainLen == 6
ChainScore == 2
MaxCells == 2
MaxHalf == 6
MaxLines == 4
MaxLine == 6
MaxGrid == 2
MaxNoisyEdges == 3
MaxRegions == 2
FewScores == 2
MaxMixed == 4
RoundsLen == 5
MaxRounds == 8
DriftMax == 7

VARIABLES
    boxes,          \* self.results["boxes"]
    overlaps,       \* process_bboxes: overlaps
    groups,         \* process_bboxes: groups
    removing,       \* process_bboxes: removing
    output_boxes,   \* process_bboxes: output_boxes
    pc,             \* position inside process_bboxes
    pass,           \* 1: first call; 2: the call on the first call's output
    page_boxes,     \* the caller's list, as the layout detector returned it
    cell_results,   \* cell_results["boxes"] of create_custom_result_from_paddlex_cell_result
    coordinate,     \* its coordinate argument: <<coordinate[0], coordinate[1]>>
    row_lines,      \* its row_lines
    column_lines,   \* its column_lines
    cells_with_data, \* its cells_with_data, before _fill_missing_cells_and_sort
    table_result,   \* the dictionary it returns
    table_error,    \* the exception it raises, "none" if it raises none
    tpc,            \* position inside the function
    grid,           \* the table the cell detector looked at (SpecGrid)
    lines,          \* the list handed to _clean_lines
    result_lines,   \* the list _clean_lines returns
    lpc,            \* position inside _clean_lines
    regions,        \* TemplateJsonCreator._find_overlaps: regions
    region,         \* its region
    region_overlaps, \* the list it returns
    rpc,            \* position inside it
    groups_done,    \* _get_removing_indexes: how many groups have been processed
    working_group,  \* _process_group: group, as the while loop rebinds it
    group_removed,  \* _process_group: removed
    rounds,         \* passes through the while loop of _process_group, this group
    find_target,    \* _find_line_index: target_line
    find_lines,     \* _find_line_index: lines
    find_index,     \* the index it returns (1-based)
    fpc             \* position inside it

bvars == <<boxes, overlaps, groups, removing, output_boxes, pc, pass, page_boxes>>

tvars == <<cell_results, coordinate, row_lines, column_lines, cells_with_data,
           table_result, table_error, tpc, grid>>

lvars == <<lines, result_lines, lpc>>

rvars == <<regions, region, region_overlaps, rpc>>

pvars == <<groups_done, working_group, group_removed, rounds>>

fvars == <<find_target, find_lines, find_index, fpc>>

vars == <<bvars, tvars, lvars, rvars, pvars, fvars>>

\* ------------------------------------------------------------- helpers
Max0(a) == IF a > 0 THEN a ELSE 0

MinOf(a, b) == IF a < b THEN a ELSE b

MaxOf(a, b) == IF a > b THEN a ELSE b

SetMin(S) == CHOOSE x \in S : \A y \in S : x <= y

Range(s) == {s[k] : k \in 1..Len(s)}

\* ------------------------------------------------- process_bboxes.py
bboxes_overlaps(bbox1, bbox2) ==
    LET c1 == bbox1.coordinate
        c2 == bbox2.coordinate
    IN  ~(  c1[3] < c2[1]
         \/ c1[1] > c2[3]
         \/ c1[4] < c2[2]
         \/ c1[2] > c2[4])

_is_overlapping(bs, index1, index2) == bboxes_overlaps(bs[index1], bs[index2])

bbox_size(bbox) ==
    LET c == bbox.coordinate
    IN  Max0(c[3] - c[1]) * Max0(c[4] - c[2])

bboxes_intersection_size(bbox_1, bbox_2) ==
    LET c1 == bbox_1.coordinate
        c2 == bbox_2.coordinate
        x_overlap == Max0(MinOf(c1[3], c2[3]) - MaxOf(c1[1], c2[1]))
        y_overlap == Max0(MinOf(c1[4], c2[4]) - MaxOf(c1[2], c2[2]))
    IN  x_overlap * y_overlap

\* As Percent, but a box of area 0 counts as wholly inside the intersection.
PercentWholeWhenEmpty(intersect_area, area) ==
    IF area > 0 THEN [num |-> intersect_area * 100, den |-> area]
                ELSE [num |-> 100, den |-> 1]

\* A percentage (intersect_area / area) * 100 is kept as the exact fraction
\* num / den; the percentage of a box of area 0 is 0.
Percent(intersect_area, area) ==
    IF area > 0 THEN [num |-> intersect_area * 100, den |-> area]
                ELSE [num |-> 0, den |-> 1]

PercentBelow(p, limit) == p.num < limit * p.den

PercentAbove(p, limit) == p.num > limit * p.den

_bboxes_overlaping_percentages(bs, index1, index2) ==
    LET area_1 == bbox_size(bs[index1])
        area_2 == bbox_size(bs[index2])
        intersect_area == bboxes_intersection_size(bs[index1], bs[index2])
    IN  <<Percent(intersect_area, area_1), Percent(intersect_area, area_2)>>

\* As _is_formula_inside_text, with the statements after its first return.
FormulaInsideTextByLabel(bs, index1, index2) ==
    LET label1 == bs[index1].label
        label2 == bs[index2].label
    IN  \/ label1 = "formula" /\ label2 = "text"
        \/ label2 = "formula" /\ label1 = "text"

\* The source returns False before it looks at the labels.
_is_formula_inside_text(bs, index1, index2) == FALSE

\* As _is_special_case_of_overlap, but an overlap of exactly 50% is too small as well.
SpecialCaseUpToHalf(bs, index1, index2) ==
    LET p == _bboxes_overlaping_percentages(bs, index1, index2)
    IN  IF ~PercentAbove(p[1], 50) /\ ~PercentAbove(p[2], 50)
        THEN TRUE
        ELSE /\ \/ PercentAbove(p[1], 95) /\ PercentBelow(p[2], 75)
                \/ PercentAbove(p[2], 95) /\ PercentBelow(p[1], 75)
             /\ _is_formula_inside_text(bs, index1, index2)

\* As _is_special_case_of_overlap, without the test for a too small overlap.
SpecialCaseNoSmallOverlap(bs, index1, index2) ==
    LET p == _bboxes_overlaping_percentages(bs, index1, index2)
    IN  /\ \/ PercentAbove(p[1], 95) /\ PercentBelow(p[2], 75)
           \/ PercentAbove(p[2], 95) /\ PercentBelow(p[1], 75)
        /\ _is_formula_inside_text(bs, index1, index2)

_is_special_case_of_overlap(bs, index1, index2) ==
    LET p == _bboxes_overlaping_percentages(bs, index1, index2)
        overlap_1 == p[1]
        overlap_2 == p[2]
    IN  IF PercentBelow(overlap_1, 50) /\ PercentBelow(overlap_2, 50)
        THEN TRUE
        ELSE IF /\ \/ PercentAbove(overlap_1, 95) /\ PercentBelow(overlap_2, 75)
                   \/ PercentAbove(overlap_2, 95) /\ PercentBelow(overlap_1, 75)
                /\ _is_formula_inside_text(bs, index1, index2)
             THEN TRUE
             ELSE FALSE

\* The pair test of _find_overlaps' inner loop.
IsRecordedPair(bs, index1, index2) ==
    _is_overlapping(bs, index1, index2) /\ ~_is_special_case_of_overlap(bs, index1, index2)

RECURSIVE FindOverlapsFrom(_, _, _, _)
FindOverlapsFrom(bs, index1, index2, acc) ==
    IF index1 > Len(bs) THEN acc
    ELSE IF index2 > Len(bs) THEN FindOverlapsFrom(bs, index1 + 1, index1 + 2, acc)
    ELSE FindOverlapsFrom(bs, index1, index2 + 1,
            IF IsRecordedPair(bs, index1, index2)
            THEN Append(acc, <<index1, index2>>) ELSE acc)

_find_overlaps(bs) == FindOverlapsFrom(bs, 1, 2, <<>>)

_convert_overlaps_to_set(ovs) == UNION {{pair[1], pair[2]} : pair \in Range(ovs)}

_get_group_index(searching, all_groups) ==
    LET hits == {i \in 1..Len(all_groups) : searching \in all_groups[i]}
    IN  IF hits = {} THEN 0 ELSE SetMin(hits)

\* The members the inner loop of _group_overlaps adds for box_index.
TouchingMembers(box_index, ovs) ==
    {pair[2] : pair \in {q \in Range(ovs) : q[1] = box_index}}
        \cup {pair[1] : pair \in {q \in Range(ovs) : q[2] = box_index}}

\* First loop of _group_overlaps; a set of box indexes is iterated in
\* ascending order (CPython's order for a set of small non-negative ints).
RECURSIVE FillGroups(_, _, _)
FillGroups(todo, ovs, gs) ==
    IF todo = {} THEN gs
    ELSE LET box_index == SetMin(todo)
             group_index == _get_group_index(box_index, gs)
             group == (IF group_index > 0 THEN gs[group_index] ELSE {})
                          \cup TouchingMembers(box_index, ovs)
         IN  FillGroups(todo \ {box_index}, ovs,
                 IF group_index = 0 THEN Append(gs, group)
                 ELSE [gs EXCEPT ![group_index] = group])

\* Inner loop of the merge: group1 takes every later, not yet removed group
\* that intersects it as it is at that moment.  Returns <<group1, removed>>.
RECURSIVE MergeInto(_, _, _, _)
MergeInto(gs, group1, group_index2, remove_group_indexes) ==
    IF group_index2 > Len(gs) THEN <<group1, remove_group_indexes>>
    ELSE IF group_index2 \in remove_group_indexes
         THEN MergeInto(gs, group1, group_index2 + 1, remove_group_indexes)
    ELSE IF group1 \cap gs[group_index2] # {}
         THEN MergeInto(gs, group1 \cup gs[group_index2], group_index2 + 1,
                        remove_group_indexes \cup {group_index2})
    ELSE MergeInto(gs, group1, group_index2 + 1, remove_group_indexes)

RECURSIVE MergeGroups(_, _, _, _)
MergeGroups(gs, group_index1, remove_group_indexes, unique_groups) ==
    IF group_index1 > Len(gs) THEN unique_groups
    ELSE IF group_index1 \in remove_group_indexes
         THEN MergeGroups(gs, group_index1 + 1, remove_group_indexes, unique_groups)
    ELSE LET m == MergeInto(gs, gs[group_index1], group_index1 + 1, remove_group_indexes)
         IN  MergeGroups(gs, group_index1 + 1, m[2], Append(unique_groups, m[1]))

_group_overlaps(overlapping_bboxes_set, ovs) ==
    MergeGroups(FillGroups(overlapping_bboxes_set, ovs, <<>>), 1, {}, <<>>)

\* As _is_direct_neightbour, but only a pair that names the member of the
\* highest score first is found.
DirectNeighbourAfter(max_score_index, member_index, ovs) ==
    \E pair \in Range(ovs) : pair[1] = max_score_index /\ pair[2] = member_index

_is_direct_neightbour(max_score_index, member_index, ovs) ==
    \E pair \in Range(ovs) :
        \/ pair[1] = max_score_index /\ pair[2] = member_index
        \/ pair[1] = member_index /\ pair[2] = max_score_index

\* As MaxScoreMember, but the member of the least index, whatever its score.
FirstMember(bs, group) == SetMin(group)

\* As MaxScoreMember, but the member of the lowest score is taken.
LeastScoreMember(bs, group) ==
    CHOOSE m \in group :
        \A x \in group : \/ bs[x].score > bs[m].score
                         \/ bs[x].score = bs[m].score /\ m <= x

\* max(group, key=score): the first member in iteration order of a highest score.
MaxScoreMember(bs, group) ==
    CHOOSE m \in group :
        \A x \in group : \/ bs[x].score < bs[m].score
                         \/ bs[x].score = bs[m].score /\ m <= x

\* As _process_group, but a round stops at the first direct neighbour it removes
\* (a break after removed.add): the members not yet visited are dropped unprocessed.
RECURSIVE ProcessGroupBreak(_, _, _)
ProcessGroupBreak(bs, group, ovs) ==
    IF group = {} THEN {}
    ELSE LET max_score == MaxScoreMember(bs, group)
             neighbours == {member \in group \ {max_score} :
                               _is_direct_neightbour(max_score, member, ovs)}
             first == IF neighbours = {} THEN 0 ELSE SetMin(neighbours)
             removed == IF first = 0 THEN {} ELSE {first}
             to_further_process == {member \in group \ {max_score} :
                            /\ ~_is_direct_neightbour(max_score, member, ovs)
                            /\ first = 0 \/ member < first}
         IN  removed \cup ProcessGroupBreak(bs, to_further_process, ovs)

\* As _process_group, but the first round removes every other member of the
\* group, direct neighbour of the chosen member or not.
ProcessGroupWhole(bs, group, ovs) ==
    IF group = {} THEN {} ELSE group \ {MaxScoreMember(bs, group)}

RECURSIVE _process_group(_, _, _)
_process_group(bs, group, ovs) ==
    IF group = {} THEN {}
    ELSE LET max_score == MaxScoreMember(bs, group)
             removed == {member \in group \ {max_score} :
                            _is_direct_neightbour(max_score, member, ovs)}
             to_further_process == {member \in group \ {max_score} :
                            ~_is_direct_neightbour(max_score, member, ovs)}
         IN  removed \cup _process_group(bs, to_further_process, ovs)

_get_removing_indexes(bs, gs, ovs) ==
    UNION {_process_group(bs, gs[g], ovs) : g \in 1..Len(gs)}

\* As KeptBoxes, but each kept box is put in front of the output list.
KeptBoxesInFront(bs, rem) ==
    LET kept == {i \in 1..Len(bs) : i \notin rem}
        RECURSIVE Build(_, _)
        Build(i, acc) ==
            IF i > Len(bs) THEN acc
            ELSE Build(i + 1, IF i \in kept THEN <<bs[i]>> \o acc ELSE acc)
    IN  Build(1, <<>>)

\* The output loop of process_bboxes.
KeptBoxes(bs, rem) ==
    LET kept == {i \in 1..Len(bs) : i \notin rem}
        RECURSIVE Build(_, _)
        Build(i, acc) ==
            IF i > Len(bs) THEN acc
            ELSE Build(i + 1, IF i \in kept THEN Append(acc, bs[i]) ELSE acc)
    IN  Build(1, <<>>)

\* The set removing of process_bboxes as a function of the list of boxes.
RemovingOf(bs) ==
    LET ovs == _find_overlaps(bs)
        gs == _group_overlaps(_convert_overlaps_to_set(ovs), ovs)
    IN  _get_removing_indexes(bs, gs, ovs)

\* process_bboxes as one function of the list of boxes.
process_bboxes(bs) == KeptBoxes(bs, RemovingOf(bs))

\* --------------------------------------------------- template_json.py
\* TemplateJsonCreator._find_overlaps: the regions of the list that are not
\* equal to region and that bboxes_overlaps reports for it, in list order.
RECURSIVE TemplateFindOverlaps(_, _, _, _)
TemplateFindOverlaps(reg, regs, k, acc) ==
    IF k > Len(regs) THEN acc
    ELSE TemplateFindOverlaps(reg, regs, k + 1,
            IF regs[k] # reg /\ bboxes_overlaps(reg, regs[k])
            THEN Append(acc, regs[k]) ELSE acc)

\* -------------------------------------------------- process_table.py
\* A cell coordinate is a float; the model counts it in half pixels (the value
\* h stands for h / 2), so that round() and int() have work to do.  Grid lines
\* and line indexes are whole numbers; a page-absolute bbox is again in halves.

InitialPreviousLine == -10

LineTolerance == 2

Abs(a) == IF a < 0 THEN -a ELSE a

\* round(h / 2): to the nearest integer, a tie to the even one.
PyRound(h) ==
    LET floor == IF h >= 0 THEN h \div 2 ELSE -((1 - h) \div 2)
    IN  IF h - 2 * floor = 0 THEN floor
        ELSE IF floor % 2 = 0 THEN floor ELSE floor + 1

\* int(h / 2): truncation toward zero.
PyInt(h) == IF h >= 0 THEN h \div 2 ELSE -((-h) \div 2)

RECURSIVE CreateLinesFrom(_, _, _, _, _)
CreateLinesFrom(cells, k, min_index, max_index, acc) ==
    IF k > Len(cells) THEN acc
    ELSE LET min_line == PyRound(cells[k].coordinate[min_index])
             max_line == PyRound(cells[k].coordinate[max_index])
             acc1 == IF min_line \in Range(acc) THEN acc ELSE Append(acc, min_line)
             acc2 == IF max_line \in Range(acc1) THEN acc1 ELSE Append(acc1, max_line)
         IN  CreateLinesFrom(cells, k + 1, min_index, max_index, acc2)

\* min_index and max_index are 1-based here: 2 and 4 for rows, 1 and 3 for columns.
_create_lines(cells, min_index, max_index) == CreateLinesFrom(cells, 1, min_index, max_index, <<>>)

RECURSIVE InsertSorted(_, _)
InsertSorted(s, v) ==
    IF s = <<>> THEN <<v>>
    ELSE IF v < Head(s) THEN <<v>> \o s
    ELSE <<Head(s)>> \o InsertSorted(Tail(s), v)

\* lines.sort()
RECURSIVE SortLines(_)
SortLines(s) == IF s = <<>> THEN <<>> ELSE InsertSorted(SortLines(Tail(s)), Head(s))

RECURSIVE CleanFrom(_, _, _, _)
CleanFrom(sorted, k, previous_line, acc) ==
    IF k > Len(sorted) THEN acc
    ELSE CleanFrom(sorted, k + 1, sorted[k],
            IF sorted[k] - previous_line > LineTolerance THEN Append(acc, sorted[k]) ELSE acc)

\* As _clean_lines, but only equal values are taken for one line.
RECURSIVE CleanFromEqual(_, _, _, _)
CleanFromEqual(sorted, k, previous_line, acc) ==
    IF k > Len(sorted) THEN acc
    ELSE CleanFromEqual(sorted, k + 1, sorted[k],
            IF sorted[k] - previous_line > 0 THEN Append(acc, sorted[k]) ELSE acc)

CleanLinesEqual(ls) == CleanFromEqual(SortLines(ls), 1, InitialPreviousLine, <<>>)

\* As _clean_lines, but previous_line is the last retained line: a value is
\* compared with the line of its bucket, not with the value before it.
RECURSIVE CleanFromKept(_, _, _, _)
CleanFromKept(sorted, k, previous_line, acc) ==
    IF k > Len(sorted) THEN acc
    ELSE IF sorted[k] - previous_line > LineTolerance
         THEN CleanFromKept(sorted, k + 1, sorted[k], Append(acc, sorted[k]))
    ELSE CleanFromKept(sorted, k + 1, previous_line, acc)

CleanLinesFromKept(ls) == CleanFromKept(SortLines(ls), 1, InitialPreviousLine, <<>>)

_clean_lines(ls) == CleanFrom(SortLines(ls), 1, InitialPreviousLine, <<>>)

_create_table_row_and_column_lines(cells) ==
    <<_clean_lines(_create_lines(cells, 2, 4)), _clean_lines(_create_lines(cells, 1, 3))>>

\* As _find_line_index, but the first line that is not below the target (the
\* last line if all are below).
FindLineIndexCeiling(target_line, ls) ==
    LET above == {i \in 1..Len(ls) : ls[i] >= target_line}
    IN  IF above = {} THEN Len(ls) ELSE SetMin(above)

\* As _find_line_index, but of the indexes of the least distance the last one.
FindLineIndexLast(target_line, ls) ==
    CHOOSE i \in 1..Len(ls) :
        \A j \in 1..Len(ls) :
            \/ Abs(ls[i] - target_line) < Abs(ls[j] - target_line)
            \/ Abs(ls[i] - target_line) = Abs(ls[j] - target_line) /\ i >= j

\* min(range(len(lines)), key=...): the first index of the least distance.  The
\* source raises ValueError on an empty list; the callers test that first.
_find_line_index(target_line, ls) ==
    CHOOSE i \in 1..Len(ls) :
        \A j \in 1..Len(ls) :
            \/ Abs(ls[i] - target_line) < Abs(ls[j] - target_line)
            \/ Abs(ls[i] - target_line) = Abs(ls[j] - target_line) /\ i <= j

\* As _calculate_indexes_position_span, with the span counted in lines, not in gaps.
SpanCountsLines(min, max, ls) ==
    LET min_index == _find_line_index(min, ls)
        max_index == _find_line_index(max, ls)
    IN  <<min_index, max_index, min_index, max_index - min_index + 1>>

\* <<min_index, max_index, position, span>>; the indexes are 1-based, so the
\* position min_index + 1 of the source is min_index here.
_calculate_indexes_position_span(min, max, ls) ==
    LET min_index == _find_line_index(min, ls)
        max_index == _find_line_index(max, ls)
    IN  <<min_index, max_index, min_index, max_index - min_index>>

\* As CellRecord, but the table's corner is added to the first corner of the box only.
CellRecordFirstCorner(r, c, bbox, table_min) ==
    [row |-> r[3], column |-> c[3], row_span |-> r[4], column_span |-> c[4],
     box |-> bbox,
     bbox |-> <<table_min[1] + 2 * bbox[1], table_min[2] + 2 * bbox[2],
                2 * bbox[3], 2 * bbox[4]>>]

\* The dictionary cell_result, from the two results of _calculate_indexes_position_span
\* and the snapped box.
CellRecord(r, c, bbox, table_min) ==
    [row |-> r[3], column |-> c[3], row_span |-> r[4], column_span |-> c[4],
     box |-> bbox,
     bbox |-> <<table_min[1] + 2 * bbox[1], table_min[2] + 2 * bbox[2],
                table_min[1] + 2 * bbox[3], table_min[2] + 2 * bbox[4]>>]

SnappedBox(r, c, rls, cls) == <<cls[c[1]], rls[r[1]], cls[c[2]], rls[r[2]]>>

CellFromIndexes(r, c, rls, cls, table_min) ==
    CellRecord(r, c, SnappedBox(r, c, rls, cls), table_min)

\* As CellResult, but box holds the cell's own edges, not the lines they snap to.
CellResultRawBox(box, rls, cls, table_min) ==
    CellRecord(
        _calculate_indexes_position_span(PyInt(box.coordinate[2]), PyInt(box.coordinate[4]), rls),
        _calculate_indexes_position_span(PyInt(box.coordinate[1]), PyInt(box.coordinate[3]), cls),
        <<PyInt(box.coordinate[1]), PyInt(box.coordinate[2]),
          PyInt(box.coordinate[3]), PyInt(box.coordinate[4])>>, table_min)

\* The body of the loop over cell_results["boxes"].
CellResult(box, rls, cls, table_min) ==
    CellFromIndexes(
        _calculate_indexes_position_span(PyInt(box.coordinate[2]), PyInt(box.coordinate[4]), rls),
        _calculate_indexes_position_span(PyInt(box.coordinate[1]), PyInt(box.coordinate[3]), cls),
        rls, cls, table_min)

EmptyCell(row, column) == [row |-> row, column |-> column, row_span |-> 0, column_span |-> 0]

\* output_cells[row_index][column_index] = cell raises IndexError.
OutsideGrid(cell, number_rows, number_columns) ==
    cell.row > number_rows \/ cell.column > number_columns

\* As FillGrid, but a cell is put only on a placeholder: of the cells with the
\* same row and column the first one stays.
RECURSIVE FillGridKeepFirst(_, _, _)
FillGridKeepFirst(cells, k, output_cells) ==
    IF k > Len(cells) THEN output_cells
    ELSE FillGridKeepFirst(cells, k + 1,
            IF output_cells[cells[k].row][cells[k].column]
                   = EmptyCell(cells[k].row, cells[k].column)
            THEN [output_cells EXCEPT ![cells[k].row][cells[k].column] = cells[k]]
            ELSE output_cells)

RECURSIVE FillGrid(_, _, _)
FillGrid(cells, k, output_cells) ==
    IF k > Len(cells) THEN output_cells
    ELSE FillGrid(cells, k + 1,
            [output_cells EXCEPT ![cells[k].row][cells[k].column] = cells[k]])

\* As _fill_missing_cells_and_sort, but the cells are only returned, no grid is filled.
FillMissingNothing(cells, number_rows, number_columns) == cells

\* As _fill_missing_cells_and_sort, but the grid is flattened column by column.
FillMissingColumnMajor(cells, number_rows, number_columns) ==
    IF cells = <<>> THEN <<>>
    ELSE LET empty == [row \in 1..number_rows |->
                          [column \in 1..number_columns |-> EmptyCell(row, column)]]
             output_cells == FillGrid(cells, 1, empty)
         IN  [k \in 1..(number_rows * number_columns) |->
                 output_cells[((k - 1) % number_rows) + 1][((k - 1) \div number_rows) + 1]]

\* The flat list of _fill_missing_cells_and_sort, when no cell is outside the grid.
_fill_missing_cells_and_sort(cells, number_rows, number_columns) ==
    IF cells = <<>> THEN <<>>
    ELSE LET empty == [row \in 1..number_rows |->
                          [column \in 1..number_columns |-> EmptyCell(row, column)]]
             output_cells == FillGrid(cells, 1, empty)
         IN  [k \in 1..(number_rows * number_columns) |->
                 output_cells[((k - 1) \div number_columns) + 1][((k - 1) % number_columns) + 1]]

\* ---------------------------------------------------------- the inputs
ProperBoxes(max) ==
    {c \in {<<x1, y1, x2, y2>> : x1 \in 0..max, y1 \in 0..max, x2 \in 0..max, y2 \in 0..max} :
        c[1] < c[3] /\ c[2] < c[4]}

BoxRecords(coordinates, labels, scores) ==
    {[coordinate |-> c, label |-> l, score |-> s] :
        c \in coordinates, l \in labels, s \in scores}

\* No table is being processed.
NoTable ==
    /\ cell_results = <<>>
    /\ coordinate = <<0, 0>>
    /\ row_lines = <<>>
    /\ column_lines = <<>>
    /\ cells_with_data = <<>>
    /\ table_result = [rows |-> 0, columns |-> 0, cells |-> <<>>]
    /\ table_error = "none"
    /\ tpc = "off"
    /\ grid = [column_lines |-> <<>>, row_lines |-> <<>>, cells |-> <<>>]

\* _clean_lines is not being run on its own.
NoLines ==
    /\ lines = <<>>
    /\ result_lines = <<>>
    /\ lpc = "off"

\* TemplateJsonCreator._find_overlaps is not being run.
NoRegions ==
    /\ regions = <<>>
    /\ region = [coordinate |-> <<0, 0, 0, 0>>, label |-> "text", score |-> 1]
    /\ region_overlaps = <<>>
    /\ rpc = "off"

\* _process_group is not inside its while loop.
NoRounds ==
    /\ groups_done = 0
    /\ working_group = {}
    /\ group_removed = {}
    /\ rounds = 0

\* _find_line_index is not being run on its own.
NoFind ==
    /\ find_target = 0
    /\ find_lines = <<>>
    /\ find_index = 0
    /\ fpc = "off"

\* No page is being processed.
NoBoxes ==
    /\ NoRounds
    /\ page_boxes = <<>>
    /\ boxes = <<>>
    /\ overlaps = <<>>
    /\ groups = <<>>
    /\ removing = {}
    /\ output_boxes = <<>>
    /\ pc = "off"
    /\ pass = 1

Idle ==
    /\ overlaps = <<>>
    /\ groups = <<>>
    /\ removing = {}
    /\ output_boxes = <<>>
    /\ pc = "start"
    /\ pass = 1
    /\ NoRounds
    /\ NoTable
    /\ NoLines
    /\ NoRegions
    /\ NoFind

\* Up to MaxBoxes text boxes on the grid 0..GridMax.
InitGrid ==
    /\ \E n \in 0..MaxBoxes :
          page_boxes \in [1..n -> BoxRecords(ProperBoxes(GridMax), {"text"}, 1..MaxScore)]
    /\ boxes = page_boxes
    /\ Idle

\* Up to MaxWide text or formula boxes on the wider grid 0..GridMax+1, where two
\* boxes can intersect in less than half of each.
InitWide ==
    /\ \E n \in 1..MaxWide :
          page_boxes \in [1..n -> BoxRecords(ProperBoxes(GridMax + 1), {"text", "formula"},
                                             1..MaxScore)]
    /\ boxes = page_boxes
    /\ Idle

Init == InitGrid \/ InitWide

\* A row of n boxes 4 wide and 1 high, each shifted by 2 from the one before, so
\* that consecutive boxes share half of their area and no others intersect.
ChainBox(k, s) ==
    [coordinate |-> <<2 * (k - 1), 0, 2 * (k - 1) + 4, 1>>, label |-> "text", score |-> s]

\* The orders of a list of n elements.
ListOrders(n) == {f \in [1..n -> 1..n] : \A a, b \in 1..n : a # b => f[a] # f[b]}

\* The boxes of a chain in any order of the list, with any scores.
InitChain ==
    /\ \E n \in 1..ChainLen :
          \E order \in ListOrders(n) :
              \E score \in [1..n -> 1..ChainScore] :
                  page_boxes = [i \in 1..n |-> ChainBox(order[i], score[i])]
    /\ boxes = page_boxes
    /\ Idle

\* ------------------------------------------- process_bboxes, step by step
FindOverlaps ==
    /\ pc = "start"
    /\ overlaps' = _find_overlaps(boxes)
    /\ pc' = "overlaps"
    /\ UNCHANGED <<boxes, groups, removing, output_boxes, pass, page_boxes, tvars, lvars, rvars, pvars, fvars>>

GroupOverlaps ==
    /\ pc = "overlaps"
    /\ groups' = _group_overlaps(_convert_overlaps_to_set(overlaps), overlaps)
    /\ pc' = "groups"
    /\ UNCHANGED <<boxes, overlaps, removing, output_boxes, pass, page_boxes, tvars, lvars, rvars, pvars, fvars>>

GetRemovingIndexes ==
    /\ pc = "groups"
    /\ removing' = _get_removing_indexes(boxes, groups, overlaps)
    /\ pc' = "removing"
    /\ UNCHANGED <<boxes, overlaps, groups, output_boxes, pass, page_boxes, tvars, lvars, rvars, pvars, fvars>>

\* As ReturnOutput, but the boxes to remove are also taken out of
\* self.results["boxes"] itself.
ReturnOutputInPlace ==
    /\ pc = "removing"
    /\ output_boxes' = KeptBoxes(boxes, removing)
    /\ boxes' = KeptBoxes(boxes, removing)
    /\ pc' = "done"
    /\ UNCHANGED <<overlaps, groups, removing, pass, page_boxes, tvars, lvars, rvars, pvars, fvars>>

ReturnOutput ==
    /\ pc = "removing"
    /\ output_boxes' = KeptBoxes(boxes, removing)
    /\ pc' = "done"
    /\ UNCHANGED <<boxes, overlaps, groups, removing, pass, page_boxes, tvars, lvars, rvars, pvars, fvars>>

\* The caller runs process_bboxes again on the list it returned.
Rerun ==
    /\ pc = "done"
    /\ pass = 1
    /\ boxes' = output_boxes
    /\ overlaps' = <<>>
    /\ groups' = <<>>
    /\ removing' = {}
    /\ output_boxes' = <<>>
    /\ pc' = "start"
    /\ pass' = 2
    /\ UNCHANGED <<page_boxes, tvars, lvars, rvars, pvars, fvars>>

Next ==
    \/ FindOverlaps
    \/ GroupOverlaps
    \/ GetRemovingIndexes
    \/ ReturnOutput
    \/ Rerun

Spec == Init /\ [][Next]_vars

SpecChain == InitChain /\ [][Next]_vars

\* process_bboxes called once.
NextOnce ==
    \/ FindOverlaps
    \/ GroupOverlaps
    \/ GetRemovingIndexes
    \/ ReturnOutput

\* Boxes of no extent or of negative extent on an axis.
DegenerateBoxes(max) ==
    {c \in (0..max) \X (0..max) \X (0..max) \X (0..max) : c[3] <= c[1] \/ c[4] <= c[2]}

\* s with the element e put at position k.
InsertAt(s, k, e) == SubSeq(s, 1, k - 1) \o <<e>> \o SubSeq(s, k, Len(s))

\* Up to two proper text boxes and one degenerate box at any place of the list.
InitDegenerate ==
    /\ \E n \in 0..2 :
          \E proper \in [1..n -> BoxRecords(ProperBoxes(GridMax), {"text"}, 1..FewScores)] :
              \E d \in BoxRecords(DegenerateBoxes(GridMax), {"text"}, 1..FewScores) :
                  \E k \in 1..(n + 1) : page_boxes = InsertAt(proper, k, d)
    /\ boxes = page_boxes
    /\ Idle

SpecDegenerate == InitDegenerate /\ [][NextOnce]_vars

\* The ways to give n boxes the scores 1..n: every way for up to MaxMixed boxes,
\* for more boxes the scores that rise or fall along the chain.
ScoreOrders(n) ==
    IF n <= MaxMixed THEN ListOrders(n)
    ELSE {[k \in 1..n |-> k], [k \in 1..n |-> n + 1 - k]}

\* The boxes of a chain in any order of the list, no two of the same score.
InitChainDistinct ==
    /\ \E n \in 1..ChainLen :
          \E order \in ListOrders(n) :
              \E score \in ScoreOrders(n) :
                  page_boxes = [i \in 1..n |-> ChainBox(order[i], score[order[i]])]
    /\ boxes = page_boxes
    /\ Idle

SpecChainDistinct == InitChainDistinct /\ [][NextOnce]_vars

\* The two boxes of the Overlap Resolver scenario; a score is counted in tenths.
ScenarioA ==
    <<[coordinate |-> <<0, 0, 100, 100>>, label |-> "text", score |-> 9],
      [coordinate |-> <<10, 10, 90, 90>>, label |-> "text", score |-> 5]>>

ScenarioEdges == {0, 10, 90, 100}

ScenarioBoxes ==
    {c \in ScenarioEdges \X ScenarioEdges \X ScenarioEdges \X ScenarioEdges :
        c[1] < c[3] /\ c[2] < c[4]}

\* Two text boxes with the edges and the scores of the scenario.
InitPair ==
    /\ page_boxes \in [1..2 -> BoxRecords(ScenarioBoxes, {"text"}, {5, 9})]
    /\ boxes = page_boxes
    /\ Idle

SpecPair == InitPair /\ [][Next]_vars

\* ------------------------------------- _process_group, round by round
\* The members a round of _process_group removes: the direct neighbours of the
\* member it picked.
DirectNeighbours(grp, max_score, ovs) ==
    {member \in grp \ {max_score} : _is_direct_neightbour(max_score, member, ovs)}

\* As ToFurtherProcess, without the test member == max_score: the picked member
\* is kept for the next round like every member that is not its neighbour.
ToFurtherProcessWithMax(grp, max_score, ovs) ==
    {member \in grp : ~_is_direct_neightbour(max_score, member, ovs)}

\* The set to_further_process a round of _process_group rebinds group to.
ToFurtherProcess(grp, max_score, ovs) ==
    {member \in grp \ {max_score} : ~_is_direct_neightbour(max_score, member, ovs)}

\* The boxes of a chain of up to RoundsLen boxes in any order, with any scores.
InitRounds ==
    /\ \E n \in 1..RoundsLen :
          \E order \in ListOrders(n) :
              \E score \in [1..n -> 1..ChainScore] :
                  page_boxes = [i \in 1..n |-> ChainBox(order[i], score[i])]
    /\ boxes = page_boxes
    /\ Idle

\* _get_removing_indexes: the for loop takes the next group and calls
\* _process_group, which starts with removed empty.
StartGroup ==
    /\ pc = "groups"
    /\ groups_done < Len(groups)
    /\ groups_done' = groups_done + 1
    /\ working_group' = groups[groups_done + 1]
    /\ group_removed' = {}
    /\ rounds' = 0
    /\ pc' = "round"
    /\ UNCHANGED <<boxes, overlaps, groups, removing, output_boxes, pass, page_boxes,
                   tvars, lvars, rvars, fvars>>

\* One pass through the while loop of _process_group.
Round ==
    /\ pc = "round"
    /\ working_group # {}
    /\ rounds < MaxRounds
    /\ LET max_score == MaxScoreMember(boxes, working_group)
       IN  /\ group_removed' =
                 group_removed \cup DirectNeighbours(working_group, max_score, overlaps)
           /\ working_group' = ToFurtherProcess(working_group, max_score, overlaps)
    /\ rounds' = rounds + 1
    /\ UNCHANGED <<boxes, overlaps, groups, removing, output_boxes, pc, pass, page_boxes,
                   groups_done, tvars, lvars, rvars, fvars>>

\* The while loop ends, _process_group returns removed and
\* _get_removing_indexes adds it to remove_indexes.
EndGroup ==
    /\ pc = "round"
    /\ working_group = {}
    /\ removing' = removing \cup group_removed
    /\ pc' = "groups"
    /\ UNCHANGED <<boxes, overlaps, groups, output_boxes, pass, page_boxes,
                   tvars, lvars, rvars, pvars, fvars>>

\* The for loop of _get_removing_indexes ends and remove_indexes is returned.
EndGroups ==
    /\ pc = "groups"
    /\ groups_done = Len(groups)
    /\ pc' = "removing"
    /\ UNCHANGED <<boxes, overlaps, groups, removing, output_boxes, pass, page_boxes,
                   tvars, lvars, rvars, pvars, fvars>>

\* The steps of process_bboxes from the call of _get_removing_indexes on.
ResolveGroups ==
    \/ StartGroup
    \/ Round
    \/ EndGroup
    \/ EndGroups
    \/ ReturnOutput

NextRounds ==
    \/ FindOverlaps
    \/ GroupOverlaps
    \/ ResolveGroups

\* process_bboxes is sequential code on one thread: while a step of the loops
\* of _get_removing_indexes and _process_group is possible, the interpreter
\* takes it.
SpecRounds == InitRounds /\ [][NextRounds]_vars /\ WF_vars(ResolveGroups)

\* ------------------------------------------------- the inputs of a table
CellBox(c) == [coordinate |-> c]

\* Cells with x_min <= x_max among the half pixels 0..MaxHalf and one edge far
\* from them, and y_min <= y_max among three row edges 3 pixels apart.
ColumnEdges == (0..MaxHalf) \cup {2 * MaxHalf}

RowEdges == {0, 6, 12}

CellDomain ==
    {CellBox(<<x1, y1, x2, y2>>) : x1 \in ColumnEdges, y1 \in RowEdges,
                                   x2 \in ColumnEdges, y2 \in RowEdges}

WellFormedCells(cells) ==
    \A k \in 1..Len(cells) :
        /\ cells[k].coordinate[1] <= cells[k].coordinate[3]
        /\ cells[k].coordinate[2] <= cells[k].coordinate[4]

\* The table's corner on the page, in half pixels: (10.5, 20).
TableCorner == <<21, 40>>

TableIdle ==
    /\ row_lines = <<>>
    /\ column_lines = <<>>
    /\ cells_with_data = <<>>
    /\ table_result = [rows |-> 0, columns |-> 0, cells |-> <<>>]
    /\ table_error = "none"
    /\ tpc = "start"
    /\ NoBoxes
    /\ NoLines
    /\ NoRegions
    /\ NoFind

NoGrid == [column_lines |-> <<>>, row_lines |-> <<>>, cells |-> <<>>]

InitTable ==
    /\ \E n \in 0..MaxCells : cell_results \in {cs \in [1..n -> CellDomain] : WellFormedCells(cs)}
    /\ coordinate = TableCorner
    /\ grid = NoGrid
    /\ TableIdle

\* ---- tables that a grid of lines and a tiling of it by cells describe
GridGaps == {2, 3, 5}

\* The least distance of two grid lines at which noisy cells are still put on
\* their own lines.
NoisyGap == 5

\* The lists of n + 1 lines that start at 0 and leave one of gaps between neighbours.
RECURSIVE GridLines(_, _)
GridLines(n, gaps) ==
    IF n = 0 THEN {<<0>>}
    ELSE {Append(l, l[Len(l)] + g) : l \in GridLines(n - 1, gaps), g \in gaps}

\* The grid positions <<column, row>> of the rectangle <<c1, r1, c2, r2>> of line indexes.
Positions(rect) == {<<c, r>> : c \in rect[1]..(rect[3] - 1), r \in rect[2]..(rect[4] - 1)}

RowMajorFirst(S) ==
    CHOOSE p \in S : \A q \in S : p[2] < q[2] \/ (p[2] = q[2] /\ p[1] <= q[1])

\* Every way to cover the positions in free by rectangles that do not overlap.
RECURSIVE Tilings(_)
Tilings(free) ==
    IF free = {} THEN {{}}
    ELSE LET p == RowMajorFirst(free)
             rects == {rect \in {<<p[1], p[2], c2, r2>> :
                                    c2 \in (p[1] + 1)..(MaxGrid + 1),
                                    r2 \in (p[2] + 1)..(MaxGrid + 1)} :
                          Positions(rect) \subseteq free}
         IN  UNION {{{rect} \cup t : t \in Tilings(free \ Positions(rect))} : rect \in rects}

RECURSIVE RowMajorSeq(_)
RowMajorSeq(t) ==
    IF t = {} THEN <<>>
    ELSE LET first == CHOOSE a \in t : \A b \in t : a[2] < b[2] \/ (a[2] = b[2] /\ a[1] <= b[1])
         IN  <<first>> \o RowMajorSeq(t \ {first})

\* The sets of at most m elements of E.
RECURSIVE SubsetsUpTo(_, _)
SubsetsUpTo(E, m) ==
    IF m = 0 THEN {{}}
    ELSE LET smaller == SubsetsUpTo(E, m - 1)
         IN  smaller \cup {P \cup {e} : P \in smaller, e \in E}

\* The detected box of a cell: its grid lines in half pixels, each edge moved by
\* the noise of that edge (in half pixels).
DetectedCell(rect, cls, rls, noise) ==
    CellBox(<<2 * cls[rect[1]] + noise[1], 2 * rls[rect[2]] + noise[2],
              2 * cls[rect[3]] + noise[3], 2 * rls[rect[4]] + noise[4]>>)

NoiseSteps == {-2, -1, 1, 2}

\* Every line of the grid is an edge of a cell of the tiling t.
UsesEveryLine(t, nc, nr) ==
    /\ \A i \in 1..(nc + 1) : \E rect \in t : rect[1] = i \/ rect[3] = i
    /\ \A i \in 1..(nr + 1) : \E rect \in t : rect[2] = i \/ rect[4] = i

GridTables(gaps) ==
    {[column_lines |-> cls, row_lines |-> rls, cells |-> RowMajorSeq(t)] :
        <<cls, rls, t>> \in
            UNION {GridLines(nc, gaps) \X GridLines(nr, gaps)
                       \X {t \in Tilings((1..nc) \X (1..nr)) : UsesEveryLine(t, nc, nr)} :
                      <<nc, nr>> \in (1..MaxGrid) \X (1..MaxGrid)}}

\* The cells tile the grid exactly; the list holds them in any order.
InitGridExact ==
    /\ \E g \in GridTables(GridGaps) :
          \E order \in ListOrders(Len(g.cells)) :
              /\ grid = [g EXCEPT !.cells = [k \in 1..Len(g.cells) |-> g.cells[order[k]]]]
              /\ cell_results = [k \in 1..Len(g.cells) |->
                                    DetectedCell(g.cells[order[k]], g.column_lines, g.row_lines,
                                                 <<0, 0, 0, 0>>)]
    /\ coordinate \in {<<0, 0>>, TableCorner}
    /\ TableIdle

\* At most MaxNoisyEdges cell edges are off their grid line, by a pixel or half a pixel.
InitGridNoisy ==
    /\ \E g \in GridTables({NoisyGap}) :
          \E noisy \in SubsetsUpTo((1..Len(g.cells)) \X (1..4), MaxNoisyEdges) \ {{}} :
              \E step \in [noisy -> NoiseSteps] :
                  /\ grid = g
                  /\ cell_results = [k \in 1..Len(g.cells) |->
                        DetectedCell(g.cells[k], g.column_lines, g.row_lines,
                            [e \in 1..4 |-> IF <<k, e>> \in noisy THEN step[<<k, e>>] ELSE 0])]
    /\ coordinate = <<0, 0>>
    /\ TableIdle

InitGrid2 == InitGridExact \/ InitGridNoisy

\* --------------- create_custom_result_from_paddlex_cell_result, step by step
ReturnEmpty ==
    /\ tpc = "start"
    /\ Len(cell_results) = 0
    /\ table_result' = [rows |-> 0, columns |-> 0, cells |-> <<>>]
    /\ tpc' = "done"
    /\ UNCHANGED <<cell_results, coordinate, row_lines, column_lines, cells_with_data,
                   table_error, grid, bvars, lvars, rvars, pvars, fvars>>

CreateTableLines ==
    /\ tpc = "start"
    /\ Len(cell_results) > 0
    /\ LET both == _create_table_row_and_column_lines(cell_results)
       IN  row_lines' = both[1] /\ column_lines' = both[2]
    /\ tpc' = "lines"
    /\ UNCHANGED <<cell_results, coordinate, cells_with_data, table_result, table_error,
                   grid, bvars, lvars, rvars, pvars, fvars>>

\* The loop over the cells; min() of _find_line_index raises ValueError on an
\* empty list of lines.
BuildCells ==
    /\ tpc = "lines"
    /\ IF row_lines = <<>> \/ column_lines = <<>>
       THEN /\ table_error' = "ValueError"
            /\ tpc' = "raised"
            /\ UNCHANGED cells_with_data
       ELSE /\ cells_with_data' = [k \in 1..Len(cell_results) |->
                                      CellResult(cell_results[k], row_lines, column_lines, coordinate)]
            /\ tpc' = "cells"
            /\ UNCHANGED table_error
    /\ UNCHANGED <<cell_results, coordinate, row_lines, column_lines, table_result,
                   grid, bvars, lvars, rvars, pvars, fvars>>

\* _fill_missing_cells_and_sort and the return; placing a cell outside the
\* rows x columns grid raises IndexError.
FillMissingCells ==
    /\ tpc = "cells"
    /\ LET number_rows == Len(row_lines) - 1
           number_columns == Len(column_lines) - 1
       IN  IF \E k \in 1..Len(cells_with_data) :
                 OutsideGrid(cells_with_data[k], number_rows, number_columns)
           THEN /\ table_error' = "IndexError"
                /\ tpc' = "raised"
                /\ UNCHANGED table_result
           ELSE /\ table_result' =
                      [rows |-> number_rows, columns |-> number_columns,
                       cells |-> _fill_missing_cells_and_sort(cells_with_data, number_rows,
                                                              number_columns)]
                /\ tpc' = "done"
                /\ UNCHANGED table_error
    /\ UNCHANGED <<cell_results, coordinate, row_lines, column_lines, cells_with_data,
                   grid, bvars, lvars, rvars, pvars, fvars>>

NextTable ==
    \/ ReturnEmpty
    \/ CreateTableLines
    \/ BuildCells
    \/ FillMissingCells

SpecTable == InitTable /\ [][NextTable]_vars

NextGrid ==
    \/ CreateTableLines
    \/ BuildCells
    \/ FillMissingCells

SpecGrid == InitGrid2 /\ [][NextGrid]_vars

\* The Table scenario: four cells of 50 by 50 pixels in two rows, at the table
\* offset (10, 20); all in half pixels.
ScenarioB ==
    <<CellBox(<<0, 0, 100, 100>>), CellBox(<<100, 0, 200, 100>>),
      CellBox(<<0, 100, 100, 200>>), CellBox(<<100, 100, 200, 200>>)>>

ScenarioGaps == {50}

ScenarioCorner == <<20, 40>>

\* The exact tables with lines 50 apart, the cells in any order, at three corners.
InitOffset ==
    /\ \E g \in GridTables(ScenarioGaps) :
          \E order \in ListOrders(Len(g.cells)) :
              /\ grid = [g EXCEPT !.cells = [k \in 1..Len(g.cells) |-> g.cells[order[k]]]]
              /\ cell_results = [k \in 1..Len(g.cells) |->
                                    DetectedCell(g.cells[order[k]], g.column_lines, g.row_lines,
                                                 <<0, 0, 0, 0>>)]
    /\ coordinate \in {<<0, 0>>, ScenarioCorner, TableCorner}
    /\ TableIdle

SpecOffset == InitOffset /\ [][NextGrid]_vars

\* Up to MaxCells cells of one row, 3 pixels high, whose left and right edges
\* are whole pixels in 0..DriftMax.
DriftDomain ==
    {CellBox(<<2 * x1, 0, 2 * x2, 6>>) : x1 \in 0..DriftMax, x2 \in 0..DriftMax}

InitDrift ==
    /\ \E n \in 1..MaxCells :
          cell_results \in {cs \in [1..n -> DriftDomain] : WellFormedCells(cs)}
    /\ coordinate = TableCorner
    /\ grid = NoGrid
    /\ TableIdle

SpecDrift == InitDrift /\ [][NextGrid]_vars

\* ------------------------------------------------- _clean_lines on its own
\* The edge values of the Line Clusterer scenario.
ScenarioLines == <<0, 1, 50, 51, 52, 100>>

InitLines ==
    /\ lines \in UNION {[1..n -> 0..MaxLine] : n \in 0..MaxLines} \cup {ScenarioLines}
    /\ result_lines = <<>>
    /\ lpc = "start"
    /\ NoBoxes
    /\ NoTable
    /\ NoRegions
    /\ NoFind

\* lines.sort() sorts the caller's list in place.
CleanLines ==
    /\ lpc = "start"
    /\ lines' = SortLines(lines)
    /\ result_lines' = _clean_lines(lines)
    /\ lpc' = "done"
    /\ UNCHANGED <<bvars, tvars, rvars, pvars, fvars>>

NextLines == CleanLines

SpecLines == InitLines /\ [][NextLines]_vars

\* ---------------------------------------------------- _find_line_index
\* The targets of a lookup: the whole pixels of the lines and one pixel beyond
\* either end.
FindTargets == (0 - 1)..(MaxLine + 1)

\* A sorted list of 1..MaxLines lines among 0..MaxLine and a target.
InitFind ==
    /\ find_lines \in {ls \in UNION {[1..n -> 0..MaxLine] : n \in 1..MaxLines} :
                          \A k \in 1..(Len(ls) - 1) : ls[k] <= ls[k + 1]}
    /\ find_target \in FindTargets
    /\ find_index = 0
    /\ fpc = "start"
    /\ NoBoxes
    /\ NoTable
    /\ NoLines
    /\ NoRegions

FindLineIndex ==
    /\ fpc = "start"
    /\ find_index' = _find_line_index(find_target, find_lines)
    /\ fpc' = "done"
    /\ UNCHANGED <<find_target, find_lines, bvars, tvars, lvars, rvars, pvars>>

NextFind == FindLineIndex

SpecFind == InitFind /\ [][NextFind]_vars

\* ------------------------- TemplateJsonCreator._find_overlaps on its own
\* The caller hands over each box of the page together with the page's list.
InitRegions ==
    /\ \E n \in 1..MaxRegions :
          /\ regions \in [1..n -> BoxRecords(ProperBoxes(GridMax), {"text", "formula"}, {1})]
          /\ region \in Range(regions)
    /\ region_overlaps = <<>>
    /\ rpc = "start"
    /\ NoBoxes
    /\ NoTable
    /\ NoLines
    /\ NoFind

FindRegionOverlaps ==
    /\ rpc = "start"
    /\ region_overlaps' = TemplateFindOverlaps(region, regions, 1, <<>>)
    /\ rpc' = "done"
    /\ UNCHANGED <<regions, region, bvars, tvars, lvars, pvars, fvars>>

NextRegions == FindRegionOverlaps

SpecRegions == InitRegions /\ [][NextRegions]_vars

\* ------------------------------------------- both algorithms, one call
\* One call of process_bboxes on a page of two boxes, or one call of
\* create_custom_result_from_paddlex_cell_result on the cells of one row, or
\* one call of _clean_lines on a list of line candidates.
InitBoth == InitPair \/ InitDrift \/ InitLines

NextBoth ==
    \/ NextOnce
    \/ NextGrid
    \/ NextLines

SpecBoth == InitBoth /\ [][NextBoth]_vars

\* ============================================================== claims
\* The two rectangles share a region of positive area.
PositiveIntersection(b1, b2) ==
    /\ MaxOf(b1.coordinate[1], b2.coordinate[1]) < MinOf(b1.coordinate[3], b2.coordinate[3])
    /\ MaxOf(b1.coordinate[2], b2.coordinate[2]) < MinOf(b1.coordinate[4], b2.coordinate[4])

\* i and j are a pair that _find_overlaps kept.
RecordedPair(i, j) == <<i, j>> \in Range(overlaps) \/ <<j, i>> \in Range(overlaps)

Returned == pc = "done"

\* C1: every box that process_bboxes removes forms a recorded overlap pair with
\* a box that is in the output and whose score is at least its own.
C1_RemovedHasKeptNeighbour ==
    Returned =>
        \A r \in removing :
            \E k \in (1..Len(boxes)) \ removing :
                /\ boxes[k].score >= boxes[r].score
                /\ RecordedPair(k, r)

\* C2: a box that forms no recorded overlap pair with any other box is in the
\* output, and a list of boxes of which no two share a region of positive area
\* is returned as it is.
IsolatedBox(i) == \A j \in (1..Len(boxes)) \ {i} : ~RecordedPair(i, j)

C2_IsolatedBoxKept ==
    Returned =>
        /\ \A i \in 1..Len(boxes) :
              IsolatedBox(i) => i \notin removing /\ boxes[i] \in Range(output_boxes)
        /\ (\A i, j \in 1..Len(boxes) : i # j => ~PositiveIntersection(boxes[i], boxes[j]))
              => output_boxes = boxes

\* C2 witness: the call has returned, a box without a recorded pair stands next
\* to a box that was removed and shares an edge or a corner with another box.
C2_Witness ==
    /\ Returned
    /\ removing # {}
    /\ \E i, j \in 1..Len(boxes) :
          /\ i # j
          /\ IsolatedBox(i)
          /\ bboxes_overlaps(boxes[i], boxes[j])
          /\ ~PositiveIntersection(boxes[i], boxes[j])

\* C3: process_bboxes applied to the list it returned returns that list again.
C3_Idempotent == (Returned /\ pass = 2) => output_boxes = boxes

\* C3 witness: the second call has returned, and the first call removed a box
\* and kept at least two.
C3_Witness ==
    /\ Returned
    /\ pass = 2
    /\ Len(boxes) < Len(page_boxes)
    /\ Len(boxes) >= 2

TableReturned == tpc = "done"

TableEnded == tpc \in {"done", "raised"}

\* Every coordinate of every cell is a whole number of pixels.
IntegerCells == \A k \in 1..Len(cell_results) : \A e \in 1..4 : cell_results[k].coordinate[e] % 2 = 0

\* C4: for cells with integer coordinates, x_min <= x_max and y_min <= y_max,
\* create_custom_result_from_paddlex_cell_result returns a result and raises nothing.
C4_NeverRaises ==
    (TableEnded /\ IntegerCells /\ WellFormedCells(cell_results))
        => (tpc = "done" /\ table_error = "none")

\* C5 as stated: _clean_lines applied to [0, 1, 50, 51, 52, 100] returns
\* [0, 50, 52, 100]: 51 is dropped, 52 is kept.
C5_ScenarioAsStated ==
    (lpc = "done" /\ lines = ScenarioLines) => result_lines = <<0, 50, 52, 100>>

\* C5 as amended: _clean_lines applied to [0, 1, 50, 51, 52, 100] returns
\* [0, 50, 100]: 1, 51 and 52 are each within 2 of the value before them.
C5_ScenarioC ==
    (lpc = "done" /\ lines = ScenarioLines) => result_lines = <<0, 50, 100>>

\* C5 witness: _clean_lines has returned for the scenario's list.
C5_Witness == lpc = "done" /\ lines = ScenarioLines /\ Len(result_lines) = 3

\* C6 as stated: for every input, rows and columns are one less than the number
\* of canonical row and column lines, and cells has rows * columns entries.
C6_GridSizeEveryInput ==
    TableReturned =>
        /\ table_result.rows = Len(row_lines) - 1
        /\ table_result.columns = Len(column_lines) - 1
        /\ Len(table_result.cells) = table_result.rows * table_result.columns

\* C6 as amended: the identity holds for every result returned for a list that
\* is not empty; for the empty list rows and columns are 0 and cells is empty.
C6_GridSizeIdentity ==
    TableReturned =>
        IF cell_results = <<>>
        THEN table_result = [rows |-> 0, columns |-> 0, cells |-> <<>>]
        ELSE /\ table_result.rows = Len(row_lines) - 1
             /\ table_result.columns = Len(column_lines) - 1
             /\ Len(table_result.cells) = table_result.rows * table_result.columns

\* C6 witness: a result for a list that is not empty, with more grid positions
\* than detected cells.
C6_Witness ==
    /\ TableReturned
    /\ Len(cell_results) > 0
    /\ table_result.rows * table_result.columns > Len(cell_results)

IsPlaceholder(cell) == cell = EmptyCell(cell.row, cell.column)

\* C7: the returned cells are the whole grid in row-major order: the entry at
\* 0-based position k has row (k div columns) + 1 and column (k mod columns) + 1
\* and is a detected cell's record or a placeholder with both spans 0.
C7_RowMajorGrid ==
    (TableReturned /\ table_result.columns >= 1) =>
        \A k \in 1..Len(table_result.cells) :
            LET cell == table_result.cells[k]
            IN  /\ cell.row = ((k - 1) \div table_result.columns) + 1
                /\ cell.column = ((k - 1) % table_result.columns) + 1
                /\ cell \in Range(cells_with_data) \/ IsPlaceholder(cell)

\* C7 witness: a returned grid of at least two rows and two columns that holds
\* a detected cell's record and a placeholder.
C7_Witness ==
    /\ TableReturned
    /\ table_result.rows >= 2
    /\ table_result.columns >= 2
    /\ \E k \in 1..Len(table_result.cells) : IsPlaceholder(table_result.cells[k])
    /\ \E k \in 1..Len(table_result.cells) : table_result.cells[k] \in Range(cells_with_data)

HasBox(cell) == "box" \in DOMAIN cell

\* C8: the box of every returned cell record has its x values among the
\* canonical column lines and its y values among the canonical row lines.
C8_SnapInvariant ==
    TableReturned =>
        \A k \in 1..Len(table_result.cells) :
            HasBox(table_result.cells[k]) =>
                /\ table_result.cells[k].box[1] \in Range(column_lines)
                /\ table_result.cells[k].box[3] \in Range(column_lines)
                /\ table_result.cells[k].box[2] \in Range(row_lines)
                /\ table_result.cells[k].box[4] \in Range(row_lines)

\* C8 witness: a returned record whose cell has an edge that is no canonical line.
C8_Witness ==
    /\ TableReturned
    /\ \E k \in 1..Len(cell_results) :
          /\ cells_with_data[k] \in Range(table_result.cells)
          /\ PyInt(cell_results[k].coordinate[3]) \notin Range(column_lines)

\* The detected cells are the cells of grid, each edge on its grid line.
ExactTable ==
    /\ grid.cells # <<>>
    /\ cell_results = [k \in 1..Len(grid.cells) |->
                          DetectedCell(grid.cells[k], grid.column_lines, grid.row_lines,
                                       <<0, 0, 0, 0>>)]

\* Neighbouring grid lines are at least gap apart on both axes.
GridLinesApart(gap) ==
    /\ \A i \in 1..(Len(grid.column_lines) - 1) :
          grid.column_lines[i + 1] - grid.column_lines[i] >= gap
    /\ \A i \in 1..(Len(grid.row_lines) - 1) :
          grid.row_lines[i + 1] - grid.row_lines[i] >= gap

\* The records of detected cells whose span rectangle holds the position (r, c).
Covering(r, c) ==
    {k \in 1..Len(table_result.cells) :
        /\ HasBox(table_result.cells[k])
        /\ table_result.cells[k].row <= r
        /\ r < table_result.cells[k].row + table_result.cells[k].row_span
        /\ table_result.cells[k].column <= c
        /\ c < table_result.cells[k].column + table_result.cells[k].column_span}

\* C9: for cells that tile the table exactly, with grid lines more than 2 apart,
\* a result is returned in which every grid position is in the span rectangle of
\* exactly one detected cell's record and every position that is not such a
\* record's anchor holds a placeholder with both spans 0.
C9_ExactCover ==
    (TableEnded /\ ExactTable /\ GridLinesApart(LineTolerance + 1)) =>
        /\ TableReturned
        /\ \A r \in 1..table_result.rows : \A c \in 1..table_result.columns :
              LET cell == table_result.cells[(r - 1) * table_result.columns + c]
              IN  /\ Cardinality(Covering(r, c)) = 1
                  /\ HasBox(cell) \/ IsPlaceholder(cell)
                  /\ HasBox(cell) <=> Covering(r, c) = {(r - 1) * table_result.columns + c}

\* C9 witness: an exact table of two rows and two columns with a merged cell.
C9_Witness ==
    /\ TableReturned
    /\ ExactTable
    /\ GridLinesApart(LineTolerance + 1)
    /\ table_result.rows = 2
    /\ table_result.columns = 2
    /\ \E k \in 1..Len(table_result.cells) :
          HasBox(table_result.cells[k]) /\ table_result.cells[k].column_span = 2
    /\ \E k \in 1..Len(table_result.cells) : IsPlaceholder(table_result.cells[k])

\* Every detected edge is within one pixel of the grid line of its cell.
NoiseWithinOnePixel ==
    /\ Len(cell_results) = Len(grid.cells)
    /\ Len(grid.cells) > 0
    /\ \A k \in 1..Len(grid.cells) :
          /\ Abs(cell_results[k].coordinate[1] - 2 * grid.column_lines[grid.cells[k][1]]) <= 2
          /\ Abs(cell_results[k].coordinate[2] - 2 * grid.row_lines[grid.cells[k][2]]) <= 2
          /\ Abs(cell_results[k].coordinate[3] - 2 * grid.column_lines[grid.cells[k][3]]) <= 2
          /\ Abs(cell_results[k].coordinate[4] - 2 * grid.row_lines[grid.cells[k][4]]) <= 2

\* C10: with grid lines at least 5 apart and every detected edge within one
\* pixel of its line, rows and columns are those of the grid and every detected
\* cell gets the row, column and spans it has in the grid.
C10_NoiseTolerance ==
    (TableEnded /\ NoiseWithinOnePixel /\ GridLinesApart(NoisyGap)) =>
        /\ TableReturned
        /\ table_result.rows = Len(grid.row_lines) - 1
        /\ table_result.columns = Len(grid.column_lines) - 1
        /\ \A k \in 1..Len(grid.cells) :
              /\ cells_with_data[k] \in Range(table_result.cells)
              /\ cells_with_data[k].column = grid.cells[k][1]
              /\ cells_with_data[k].row = grid.cells[k][2]
              /\ cells_with_data[k].column_span = grid.cells[k][3] - grid.cells[k][1]
              /\ cells_with_data[k].row_span = grid.cells[k][4] - grid.cells[k][2]

\* C10 witness: a returned table of two columns whose inner column line was
\* detected one pixel to the left by one cell and one pixel to the right by another.
C10_Witness ==
    /\ TableReturned
    /\ NoiseWithinOnePixel
    /\ GridLinesApart(NoisyGap)
    /\ Len(grid.column_lines) = 3
    /\ \E a, b \in 1..Len(grid.cells) :
          /\ grid.cells[a][3] = 2
          /\ grid.cells[b][1] = 2
          /\ cell_results[a].coordinate[3] = 2 * grid.column_lines[2] - 2
          /\ cell_results[b].coordinate[1] = 2 * grid.column_lines[2] + 2

\* C11: of two boxes that form a recorded pair and differ in score exactly the
\* one of the higher score is returned; for the boxes [0,0,100,100] of score 0.9
\* and [10,10,90,90] of score 0.5 that is the first.
C11_HigherScoreSurvives ==
    (Returned /\ pass = 1 /\ Len(boxes) = 2) =>
        /\ (RecordedPair(1, 2) /\ boxes[1].score > boxes[2].score) => output_boxes = <<boxes[1]>>
        /\ (RecordedPair(1, 2) /\ boxes[2].score > boxes[1].score) => output_boxes = <<boxes[2]>>
        /\ boxes = ScenarioA => output_boxes = <<ScenarioA[1]>>

\* C11 witness: process_bboxes has returned one box for the scenario's two.
C11_Witness ==
    /\ Returned
    /\ pass = 1
    /\ boxes = ScenarioA
    /\ RecordedPair(1, 2)
    /\ Len(output_boxes) = 1

\* C12: the bbox of every detected cell is its snapped box with table_min_x
\* added to both x values and table_min_y to both y values; for the four cells
\* of 50 by 50 at the offset (10, 20) rows and columns are 2 and the cell at row
\* 1, column 1 has the bbox [10, 20, 60, 70].
C12_PageBox ==
    /\ tpc \in {"cells", "done"} =>
          \A k \in 1..Len(cells_with_data) :
              cells_with_data[k].bbox =
                  <<coordinate[1] + 2 * cells_with_data[k].box[1],
                    coordinate[2] + 2 * cells_with_data[k].box[2],
                    coordinate[1] + 2 * cells_with_data[k].box[3],
                    coordinate[2] + 2 * cells_with_data[k].box[4]>>
    /\ (TableEnded /\ cell_results = ScenarioB /\ coordinate = ScenarioCorner) =>
          /\ TableReturned
          /\ table_result.rows = 2
          /\ table_result.columns = 2
          /\ \A k \in 1..Len(table_result.cells) :
                (table_result.cells[k].row = 1 /\ table_result.cells[k].column = 1) =>
                    /\ HasBox(table_result.cells[k])
                    /\ table_result.cells[k].bbox = <<20, 40, 120, 140>>

\* C12 witness: the result for the scenario's cells at the scenario's offset.
C12_Witness ==
    /\ TableReturned
    /\ cell_results = ScenarioB
    /\ coordinate = ScenarioCorner
    /\ Len(table_result.cells) = 4
    /\ table_result.cells[1].row = 1
    /\ table_result.cells[1].column = 1

\* The indexes of the boxes left out, as _get_removing_indexes gathers them.
RemovedOverGroups ==
    UNION {_process_group(boxes, groups[g], overlaps) : g \in 1..Len(groups)}

\* from maps the positions of the output list to the positions of the input
\* list in ascending order, and each output box is the input box it stands for.
IsSubsequenceBy(from) ==
    /\ \A a, b \in 1..Len(output_boxes) : a < b => from[a] < from[b]
    /\ \A a \in 1..Len(output_boxes) : output_boxes[a] = boxes[from[a]]

\* C13: the output of process_bboxes is the input list without the boxes at the
\* removed indexes, each other box once and in input order, and the removed
\* indexes are the union over the groups of the indexes _process_group marks.
C13_OrderedSubsequence ==
    Returned =>
        /\ removing = RemovedOverGroups
        /\ Len(output_boxes) <= Len(boxes)
        /\ \E from \in [1..Len(output_boxes) -> 1..Len(boxes)] :
              /\ IsSubsequenceBy(from)
              /\ {from[a] : a \in 1..Len(output_boxes)} = (1..Len(boxes)) \ removing

\* C13 witness: a returned list of three boxes of which the middle one was removed.
C13_Witness ==
    /\ Returned
    /\ pass = 1
    /\ Len(boxes) = 3
    /\ removing = {2}
    /\ output_boxes = <<boxes[1], boxes[3]>>
    /\ boxes[1] # boxes[3]

\* The box has no extent or a negative extent on an axis.
IsDegenerate(b) == b.coordinate[3] <= b.coordinate[1] \/ b.coordinate[4] <= b.coordinate[2]

ProperOnly(bs) == SelectSeq(bs, LAMBDA b : ~IsDegenerate(b))

\* C14: a box with x_max <= x_min or y_max <= y_min is in no recorded pair and
\* is returned, and the other boxes returned are those that process_bboxes
\* returns for the list without the degenerate boxes.
C14_DegenerateBoxInert ==
    Returned =>
        /\ \A d \in 1..Len(boxes) :
              IsDegenerate(boxes[d]) =>
                  /\ \A j \in 1..Len(boxes) : ~RecordedPair(d, j)
                  /\ d \notin removing
                  /\ boxes[d] \in Range(output_boxes)
        /\ ProperOnly(output_boxes) = process_bboxes(ProperOnly(boxes))

\* C14 witness: a degenerate box that bboxes_overlaps reports for a box which is
\* returned, next to a box that was removed.
C14_Witness ==
    /\ Returned
    /\ Len(boxes) = 3
    /\ \E d, j, r \in 1..3 :
          /\ IsDegenerate(boxes[d])
          /\ ~IsDegenerate(boxes[j])
          /\ bboxes_overlaps(boxes[d], boxes[j])
          /\ j \notin removing
          /\ r \in removing

\* The boxes that a chain of recorded pairs links to a box of S.
RECURSIVE LinkedTo(_)
LinkedTo(S) ==
    LET more == S \cup UNION {TouchingMembers(i, overlaps) : i \in S}
    IN  IF more = S THEN S ELSE LinkedTo(more)

Grouped == pc \in {"groups", "removing", "done"}

\* C15: the groups of _group_overlaps are the connected components of the graph
\* of recorded pairs: they are pairwise disjoint, their union is the set of the
\* boxes in a pair, and two boxes share a group exactly if a chain of pairs
\* links them.
C15_GroupsAreComponents ==
    Grouped =>
        /\ \A a, b \in 1..Len(groups) : a # b => groups[a] \cap groups[b] = {}
        /\ UNION {groups[g] : g \in 1..Len(groups)} = _convert_overlaps_to_set(overlaps)
        /\ \A i, j \in _convert_overlaps_to_set(overlaps) :
              (\E g \in 1..Len(groups) : i \in groups[g] /\ j \in groups[g])
                  <=> j \in LinkedTo({i})

DistinctScores(bs) == \A a, b \in 1..Len(bs) : a # b => bs[a].score # bs[b].score

\* The boxes of bs from left to right (no two boxes of bs start at the same x).
RECURSIVE LeftToRight(_)
LeftToRight(B) ==
    IF B = {} THEN <<>>
    ELSE LET first == CHOOSE b \in B : \A c \in B : b.coordinate[1] <= c.coordinate[1]
         IN  <<first>> \o LeftToRight(B \ {first})

\* C16: for boxes of pairwise distinct scores the set of returned boxes is the
\* same for every order of the input list: it is the set returned for the
\* boxes listed from left to right.
C16_OrderIndependent ==
    (Returned /\ DistinctScores(boxes)) =>
        Range(output_boxes) = Range(process_bboxes(LeftToRight(Range(boxes))))

\* C17: bboxes_overlaps is true exactly for two rectangles that share a region of
\* positive area, so the regions TemplateJsonCreator._find_overlaps returns for
\* a region are the other regions that share such a region with it; a region
\* that only shares an edge or a corner with it is not among them.
C17_OverlapIsPositiveArea ==
    rpc = "done" =>
        \A k \in 1..Len(regions) :
            regions[k] # region =>
                (regions[k] \in Range(region_overlaps)
                    <=> PositiveIntersection(region, regions[k]))

\* The area of the rectangle both boxes cover.
SharedArea(b1, b2) ==
    IF PositiveIntersection(b1, b2)
    THEN (MinOf(b1.coordinate[3], b2.coordinate[3]) - MaxOf(b1.coordinate[1], b2.coordinate[1]))
             * (MinOf(b1.coordinate[4], b2.coordinate[4]) - MaxOf(b1.coordinate[2], b2.coordinate[2]))
    ELSE 0

OwnArea(b) == (b.coordinate[3] - b.coordinate[1]) * (b.coordinate[4] - b.coordinate[2])

\* At least 50% of the area of b1 is inside b2.
HalfInside(b1, b2) ==
    /\ b1.coordinate[1] < b1.coordinate[3]
    /\ b1.coordinate[2] < b1.coordinate[4]
    /\ 2 * SharedArea(b1, b2) >= OwnArea(b1)

Overlapped == pc \in {"overlaps", "groups", "removing", "done"}

Relabelled(bs, labels) == [k \in 1..Len(bs) |-> [bs[k] EXCEPT !.label = labels[k]]]

C20_NoRecordedPairLeft ==
    Returned =>
        \A a \in 1..Len(overlaps) :
            overlaps[a][1] \in removing \/ overlaps[a][2] \in removing

\* C20 witness: a returned list for which two groups of _group_overlaps share a
\* box and a recorded pair has lost one box and kept the other.
C20_Witness ==
    /\ Returned
    /\ \E a, b \in 1..Len(groups) : a # b /\ groups[a] \cap groups[b] # {}
    /\ \E a \in 1..Len(overlaps) :
          overlaps[a][1] \in removing /\ overlaps[a][2] \notin removing

\* i has a recorded pair, and its score is above that of every box it forms
\* one with.
AboveNeighbours(i) ==
    /\ ~IsolatedBox(i)
    /\ \A j \in (1..Len(boxes)) \ {i} :
           RecordedPair(i, j) => boxes[i].score > boxes[j].score

\* C21: a box whose score is strictly greater than the score of every box it
\* forms a recorded pair with is in the output of process_bboxes; so is the box
\* whose score is above that of every other box of the page.
C21_LocalMaximumKept ==
    Returned =>
        /\ \A i \in 1..Len(boxes) :
              AboveNeighbours(i) => i \notin removing /\ boxes[i] \in Range(output_boxes)
        /\ \A i \in 1..Len(boxes) :
              (\A j \in (1..Len(boxes)) \ {i} : boxes[i].score > boxes[j].score)
                  => i \notin removing /\ boxes[i] \in Range(output_boxes)

\* C21 witness: a box above all its neighbours was kept in a page where it sits
\* in two groups at once and one of its neighbours was removed.
C21_Witness ==
    /\ Returned
    /\ \E i \in 1..Len(boxes) :
          /\ AboveNeighbours(i)
          /\ i \notin removing
          /\ \E j \in removing : RecordedPair(i, j)
          /\ \E g, h \in 1..Len(groups) : g # h /\ i \in groups[g] /\ i \in groups[h]

\* a, b, c are a chain: a and b, and b and c, are recorded pairs, a and c are
\* not, and the scores fall from a to c.
FallingChain(a, b, c) ==
    /\ RecordedPair(a, b)
    /\ RecordedPair(b, c)
    /\ ~RecordedPair(a, c)
    /\ boxes[a].score > boxes[b].score
    /\ boxes[b].score > boxes[c].score

\* C22: for three boxes A, B, C with recorded pairs (A,B) and (B,C) but not
\* (A,C) and score(A) > score(B) > score(C), in any order of the list, the three
\* are one group and process_bboxes returns exactly A and C.
C22_RemovedBoxRemovesNothing ==
    \A a, b, c \in 1..3 :
        (Len(boxes) = 3 /\ {a, b, c} = 1..3 /\ FallingChain(a, b, c)) =>
            /\ Grouped => groups = <<{1, 2, 3}>>
            /\ pc \in {"removing", "done"} => removing = {b}
            /\ Returned =>
                  /\ Range(output_boxes) = {boxes[a], boxes[c]}
                  /\ Len(output_boxes) = 2

\* C22 witness: the chain was given with its middle box last and its weakest
\* box first, and the two ends were returned.
C22_Witness ==
    /\ Returned
    /\ Len(boxes) = 3
    /\ FallingChain(2, 3, 1)
    /\ removing = {3}
    /\ output_boxes = <<boxes[1], boxes[2]>>

\* The rounds add up to what _process_group and _get_removing_indexes return.
RoundsAgree ==
    /\ (pc = "round" /\ working_group = {}) =>
          group_removed = _process_group(boxes, groups[groups_done], overlaps)
    /\ (pc \in {"removing", "done"}) =>
          removing = _get_removing_indexes(boxes, groups, overlaps)

\* C23: every round of _process_group takes the member of the highest score
\* (and with it at least one member) out of the working group, a group of n
\* boxes has been through at most n rounds, and once the groups are built
\* process_bboxes returns, also for lists with equal scores.
C23_GroupResolutionTerminates ==
    /\ [][Round => /\ MaxScoreMember(boxes, working_group) \notin working_group'
                   /\ working_group' \subseteq working_group
                   /\ working_group' # working_group]_vars
    /\ [](pc = "round" =>
            rounds + Cardinality(working_group) <= Cardinality(groups[groups_done]))
    /\ (pc = "groups" /\ groups_done = 0) ~> Returned

\* C23 witness: process_bboxes has returned after a group of boxes that all have
\* the same score took three rounds.
C23_Witness ==
    /\ Returned
    /\ rounds = 3
    /\ \A i, j \in 1..Len(boxes) : boxes[i].score = boxes[j].score

\* The places of the sorted input whose value exceeds the value before it by
\* more than 2; the first value is compared with -10.
RetainedPlaces(sorted) ==
    {k \in 1..Len(sorted) :
        sorted[k] - (IF k = 1 THEN -10 ELSE sorted[k - 1]) > 2}

\* The m-th least element of a set of numbers.
NthOf(S, m) == CHOOSE x \in S : Cardinality({y \in S : y < x}) = m - 1

\* C24: _clean_lines returns, in ascending order, exactly the values of the
\* sorted input that exceed the value immediately before them by more than 2
\* (the first is compared with -10); two consecutive returned lines differ by
\* more than 2.
C24_RetentionRule ==
    lpc = "done" =>
        /\ Len(result_lines) = Cardinality(RetainedPlaces(lines))
        /\ \A m \in 1..Len(result_lines) :
              result_lines[m] = lines[NthOf(RetainedPlaces(lines), m)]
        /\ \A m \in 1..(Len(result_lines) - 1) :
              result_lines[m + 1] - result_lines[m] > 2

\* C24 witness: of four values, each 2 above the one before it, only the first
\* was retained.
C24_Witness ==
    /\ lpc = "done"
    /\ lines = <<0, 2, 4, 6>>
    /\ result_lines = <<0>>

\* C25: every value of the list handed to _clean_lines is within 2 of one of
\* the lines it returns: a slow drift of close values is not merged into one
\* line.
C25_EveryEdgeNearALine ==
    lpc = "done" =>
        \A k \in 1..Len(lines) :
            \E m \in 1..Len(result_lines) : Abs(lines[k] - result_lines[m]) <= 2

\* The edges of the detected cells along the x axis (lo = 1) or the y axis
\* (lo = 2), each as <<integer coordinate, index of the line it was given>>.
EdgeIndexes(lo) ==
    UNION {{<<PyInt(cell_results[k].coordinate[lo]),
              IF lo = 1 THEN cells_with_data[k].column ELSE cells_with_data[k].row>>,
            <<PyInt(cell_results[k].coordinate[lo + 2]),
              IF lo = 1
              THEN cells_with_data[k].column + cells_with_data[k].column_span
              ELSE cells_with_data[k].row + cells_with_data[k].row_span>>} :
           k \in 1..Len(cells_with_data)}

\* C26: two cell edges on the same axis whose integer coordinates differ by at
\* most 2 are given the same line index.
C26_CloseEdgesSameLine ==
    tpc \in {"cells", "done"} =>
        \A lo \in {1, 2} :
            \A e1, e2 \in EdgeIndexes(lo) :
                Abs(e1[1] - e2[1]) <= 2 => e1[2] = e2[2]

\* C27: for cells with x_min <= x_max and y_min <= y_max every record built
\* from a detected cell has a span of at least 1 in both directions and lies
\* inside the grid: 1 <= row, row + row_span - 1 <= rows, and the same for
\* columns.
C27_RecordInsideGrid ==
    (tpc \in {"cells", "done"} /\ WellFormedCells(cell_results)) =>
        \A k \in 1..Len(cells_with_data) :
            LET cell == cells_with_data[k]
            IN  /\ 1 <= cell.row
                /\ cell.row_span >= 1
                /\ cell.row + cell.row_span - 1 <= Len(row_lines) - 1
                /\ 1 <= cell.column
                /\ cell.column_span >= 1
                /\ cell.column + cell.column_span - 1 <= Len(column_lines) - 1

\* C28: for a sorted list of lines that is not empty _find_line_index returns
\* an index of the least distance to the target, the lowest of them if several
\* lines are equally near; for a larger target the index is not lower, so a
\* cell with min <= max gets no negative span.
C28_NearestLowestIndex ==
    fpc = "done" =>
        /\ find_index \in 1..Len(find_lines)
        /\ \A i \in 1..Len(find_lines) :
              /\ Abs(find_lines[find_index] - find_target) <= Abs(find_lines[i] - find_target)
              /\ Abs(find_lines[find_index] - find_target) = Abs(find_lines[i] - find_target)
                    => find_index <= i
        /\ \A max \in FindTargets :
              find_target <= max =>
                  /\ find_index <= _find_line_index(max, find_lines)
                  /\ _calculate_indexes_position_span(find_target, max, find_lines)[4] >= 0

\* C28 witness: the target 3 lies midway between the lines 1 and 5 and was
\* given the index of the line 1.
C28_Witness ==
    /\ fpc = "done"
    /\ find_lines = <<1, 5>>
    /\ find_target = 3
    /\ find_index = 1

\* The place in the input list of the last detected cell with the same row
\* and column as the k-th.
LastAtAnchor(k) ==
    CHOOSE l \in 1..Len(cells_with_data) :
        /\ cells_with_data[l].row = cells_with_data[k].row
        /\ cells_with_data[l].column = cells_with_data[k].column
        /\ \A j \in (l + 1)..Len(cells_with_data) :
               \/ cells_with_data[j].row # cells_with_data[k].row
               \/ cells_with_data[j].column # cells_with_data[k].column

\* C29: of the detected cells with the same row and column the returned grid
\* holds, at that position, the record of the last one in the input list; the
\* record of an earlier one is nowhere in the output; the records with a box
\* are at most as many as the detected cells.
C29_LastCellWins ==
    TableReturned =>
        /\ \A k \in 1..Len(cells_with_data) :
              LET cell == cells_with_data[k]
                  last == cells_with_data[LastAtAnchor(k)]
              IN  /\ table_result.cells[(cell.row - 1) * table_result.columns + cell.column]
                        = last
                  /\ cell # last => cell \notin Range(table_result.cells)
        /\ Cardinality({p \in 1..Len(table_result.cells) : HasBox(table_result.cells[p])})
              <= Len(cell_results)

\* C29 witness: two detected cells of different extent had the same row and
\* column, and the grid was returned with the record of the second only.
C29_Witness ==
    /\ TableReturned
    /\ Len(cells_with_data) = 2
    /\ cells_with_data[1].row = cells_with_data[2].row
    /\ cells_with_data[1].column = cells_with_data[2].column
    /\ cells_with_data[1] # cells_with_data[2]
    /\ cells_with_data[2] \in Range(table_result.cells)
    /\ cells_with_data[1] \notin Range(table_result.cells)
    /\ Len(table_result.cells) > 1

\* C30: no step of process_bboxes changes results["boxes"], no step of
\* create_custom_result_from_paddlex_cell_result changes cell_results or the
\* table coordinate, the list process_bboxes returns holds boxes of the input
\* list only, and the one list that is changed is the list of line candidates
\* handed to _clean_lines, which is sorted.
C30_InputsUnchanged ==
    /\ [][/\ boxes' = boxes
          /\ page_boxes' = page_boxes
          /\ cell_results' = cell_results
          /\ coordinate' = coordinate
          /\ lines' # lines => (lpc = "start" /\ lines' = SortLines(lines))]_vars
    /\ [](Returned =>
            /\ boxes = page_boxes
            /\ \A k \in 1..Len(output_boxes) : output_boxes[k] \in Range(boxes))

\* C30 witness: process_bboxes has returned a list without one of the two boxes
\* of the page, and the page's list still holds both.
C30_Witness ==
    /\ Returned
    /\ Len(boxes) = 2
    /\ Len(output_boxes) = 1
    /\ boxes = page_boxes

====
